---- MODULE Spec2Model ----
(***************************************************************************)
(* Campaign upsert resolver of AutoCreate (src/autocreate/unified_db.py):  *)
(* handle_campaign_save and save_assets_to_campaign over the auto_create   *)
(* table of the backing record store.                                      *)
(***************************************************************************)
EXTENDS Integers, Sequences, FiniteSets, TLC

VARIABLES
    store,      \* the auto_create table: row id (serial, 1..Len) -> row
    clock,      \* datetime.now(), one tick per request
    last,       \* the latest finished handle_campaign_save call: input, store before, result
    track,      \* per user: what the user's no-id saves supplied so far
    uniqueActive, \* whether the store has a uniqueness constraint over (user_id, is_active=true)
    req,        \* per concurrent request handler: the locals of its running call
    http,       \* the latest request a route handler answered: input, status, body
    campaigns,  \* creative_assets.py: campaign key -> campaign, kept in memory
    user_uploads \* creative_assets.py: user id -> campaign key -> uploaded image

vars == <<store, clock, last, track, uniqueActive, req, http, campaigns, user_uploads>>

(* ------------------------------ bounds -------------------------------- *)
MaxCalls == 2
NumUsers == 2
NumProcs == 2

Users == 1..NumUsers
Procs == 1..NumProcs

(* ------------------------- Python values ------------------------------ *)
\* One shape for every Python value a payload or a column holds.
PyNone == [t |-> "none", n |-> 0, s |-> ""]
PyNum(k) == [t |-> "num", n |-> k, s |-> ""]
PyStr(x) == [t |-> "str", n |-> 0, s |-> x]
\* a list of k asset references, its content named by x
PyList(k, x) == [t |-> "list", n |-> k, s |-> x]

\* Python truthiness of a payload value (`x or y`, `if x`)
Truthy(v) ==
    CASE v.t = "none" -> FALSE
      [] v.t = "num"  -> v.n # 0
      [] v.t = "str"  -> v.s # ""
      [] v.t = "list" -> v.n # 0

(* --------------------------- campaign_id ------------------------------ *)
\* The campaign_id argument: None, an int, or a str (a sequence of characters).
IdNone == [t |-> "none", n |-> 0, chars |-> <<>>]
IdInt(k) == [t |-> "int", n |-> k, chars |-> <<>>]
IdStr(cs) == [t |-> "str", n |-> 0, chars |-> cs]

Digits == {"0", "1", "2", "3", "4", "5", "6", "7", "8", "9"}

DigitVal(c) ==
    CASE c = "0" -> 0 [] c = "1" -> 1 [] c = "2" -> 2 [] c = "3" -> 3
      [] c = "4" -> 4 [] c = "5" -> 5 [] c = "6" -> 6 [] c = "7" -> 7
      [] c = "8" -> 8 [] c = "9" -> 9

RECURSIVE StripLeft(_)
StripLeft(cs) ==
    IF cs # <<>> /\ Head(cs) = " " THEN StripLeft(Tail(cs)) ELSE cs

RECURSIVE StripRight(_)
StripRight(cs) ==
    IF cs # <<>> /\ cs[Len(cs)] = " "
    THEN StripRight(SubSeq(cs, 1, Len(cs) - 1))
    ELSE cs

RECURSIVE DigitsValue(_)
DigitsValue(cs) ==
    IF cs = <<>> THEN 0
    ELSE 10 * DigitsValue(SubSeq(cs, 1, Len(cs) - 1)) + DigitVal(cs[Len(cs)])

\* int(float(str)): a decimal fraction is truncated instead of refused
PyIntViaFloat(cs) ==
    LET body == StripRight(StripLeft(cs))
        whole == IF \E i \in 1..Len(body) : body[i] = "."
                 THEN SubSeq(body, 1, (CHOOSE i \in 1..Len(body) :
                                         body[i] = "." /\ \A j \in 1..(i - 1) : body[j] # ".") - 1)
                 ELSE body
    IN  IF whole = <<>> \/ \E i \in 1..Len(whole) : whole[i] \notin Digits
        THEN [ok |-> FALSE, n |-> 0]
        ELSE [ok |-> TRUE, n |-> DigitsValue(whole)]

\* Python int(str): surrounding whitespace stripped, an optional sign, then one
\* or more decimal digits; anything else raises ValueError (ok = FALSE).
PyInt(cs) ==
    LET body == StripRight(StripLeft(cs))
        signed == body # <<>> /\ Head(body) \in {"-", "+"}
        ds == IF signed THEN Tail(body) ELSE body
    IN  IF ds = <<>> \/ \E i \in 1..Len(ds) : ds[i] \notin Digits
        THEN [ok |-> FALSE, n |-> 0]
        ELSE [ok |-> TRUE,
              n |-> IF Head(body) = "-" THEN 0 - DigitsValue(ds) ELSE DigitsValue(ds)]

\* truthiness of the campaign_id argument
IdTruthy(cid) ==
    CASE cid.t = "none" -> FALSE
      [] cid.t = "int"  -> cid.n # 0
      [] cid.t = "str"  -> cid.chars # <<>>

\* lines 76-83: a non-empty str is converted with int(); ValueError makes it None
NormalizeCampaignId(cid) ==
    IF IdTruthy(cid) /\ cid.t = "str"
    THEN LET r == PyInt(cid.chars)
         IN  IF r.ok THEN IdInt(r.n) ELSE IdNone
    ELSE cid

\* line 89: `if campaign_id and isinstance(campaign_id, int)`
IsExplicitId(cid) == IdTruthy(cid) /\ cid.t = "int"

(* ------------------------------ rows ---------------------------------- *)
\* The mutable columns of auto_create a payload may name.
Fields == {"campaign_goal", "budget_amount", "campaign_duration",
           "assets", "selected_asset_ids",
           "messaging_tone", "post_caption", "campaign_status", "demographics"}

\* dict.get(k) and dict.pop(k, None) on a payload (a function on its keys)
DictGet(d, k) == IF k \in DOMAIN d THEN d[k] ELSE PyNone
DictPop(d, k) == [x \in DOMAIN d \ {k} |-> d[x]]

\* a row of auto_create; a column never written is NULL (PyNone)
Row(u, active, ver, created, updated, cols) ==
    [user_id |-> u, is_active |-> active, version |-> ver,
     created_at |-> created, updated_at |-> updated,
     f |-> [k \in Fields |-> DictGet(cols, k)]]

(* --------------------------- store operations ------------------------- *)
\* the lookup by id without the owner filter
SelectByIdAnyOwner(st, id, u) ==
    {i \in DOMAIN st : i = id}

\* .select(...).eq('id', id).eq('user_id', u)
SelectByIdOwner(st, id, u) ==
    {i \in DOMAIN st : i = id /\ st[i].user_id = u}

\* the is_active filter compared with a value no row holds: never a match
SelectActiveNoMatch(st, u) ==
    {i \in DOMAIN st : st[i].user_id = u /\ st[i].is_active /\ ~st[i].is_active}

\* .select(...).eq('user_id', u).eq('is_active', True)
SelectActive(st, u) ==
    {i \in DOMAIN st : st[i].user_id = u /\ st[i].is_active}

\* an update that starts a new version on every save
UpdateRowsNewVersion(st, id, u, data, now, ver) ==
    [i \in DOMAIN st |->
        IF i = id /\ st[i].user_id = u
        THEN [st[i] EXCEPT
                !.updated_at = now,
                !.version = @ + 1,
                !.f = [k \in Fields |-> IF k \in DOMAIN data THEN data[k] ELSE @[k]]]
        ELSE st[i]]

\* an update filtered by owner only: it reaches every row of the user
UpdateRowsAllOfUser(st, id, u, data, now, ver) ==
    [i \in DOMAIN st |->
        IF st[i].user_id = u /\ SelectByIdOwner(st, id, u) # {}
        THEN [st[i] EXCEPT
                !.updated_at = now,
                !.version = IF ver >= 0 THEN ver ELSE @,
                !.f = [k \in Fields |-> IF k \in DOMAIN data THEN data[k] ELSE @[k]]]
        ELSE st[i]]

\* an update that also marks the row active
UpdateRowsActivating(st, id, u, data, now, ver) ==
    [i \in DOMAIN st |->
        IF i \in SelectByIdOwner(st, id, u)
        THEN [st[i] EXCEPT
                !.is_active = TRUE,
                !.updated_at = now,
                !.version = IF ver >= 0 THEN ver ELSE @,
                !.f = [k \in Fields |-> IF k \in DOMAIN data THEN data[k] ELSE @[k]]]
        ELSE st[i]]

\* .update(data).eq('id', id).eq('user_id', u) where data carries the payload
\* columns, updated_at, and (ver >= 0) version
UpdateRows(st, id, u, data, now, ver) ==
    [i \in DOMAIN st |->
        IF i \in SelectByIdOwner(st, id, u)
        THEN [st[i] EXCEPT
                !.updated_at = now,
                !.version = IF ver >= 0 THEN ver ELSE @,
                !.f = [k \in Fields |-> IF k \in DOMAIN data THEN data[k] ELSE @[k]]]
        ELSE st[i]]

\* .insert(campaign_data): the store assigns the next serial id
InsertRow(st, row) == Append(st, row)

(* ------------------------------ results ------------------------------- *)
\* The dict a call returns: `keys` are the keys it carries; a key not carried
\* holds a filler value here.
NoResult ==
    [success |-> FALSE, keys |-> {}, campaign_id |-> 0, is_update |-> FALSE,
     version |-> 0, error |-> "", message |-> ""]

\* lines 110-113, 138-141, 174-177, 180-183 (and 56-59, 62-65)
Failure(text) ==
    [NoResult EXCEPT !.keys = {"success", "error"}, !.error = text]

\* lines 104-108
OkExplicit(id) ==
    [NoResult EXCEPT !.success = TRUE,
                     !.keys = {"success", "campaign_id", "is_update"},
                     !.campaign_id = id, !.is_update = TRUE]

\* the active-branch result without its campaign_id
OkActiveNoId(id, ver) ==
    [NoResult EXCEPT !.success = TRUE,
                     !.keys = {"success", "is_update", "is_new_version", "version"},
                     !.is_update = TRUE, !.version = ver]

\* lines 130-136
OkActive(id, ver) ==
    [NoResult EXCEPT !.success = TRUE,
                     !.keys = {"success", "campaign_id", "is_update",
                               "is_new_version", "version"},
                     !.campaign_id = id, !.is_update = TRUE, !.version = ver]

\* lines 166-172
OkCreate(id) ==
    [NoResult EXCEPT !.success = TRUE,
                     !.keys = {"success", "campaign_id", "is_update",
                               "is_new_version", "version"},
                     !.campaign_id = id, !.is_update = FALSE, !.version = 1]

\* lines 51-54
OkAssets ==
    [NoResult EXCEPT !.success = TRUE, !.keys = {"success", "message"},
                     !.message = "Assets saved successfully"]

NotFoundText == "Campaign not found or access denied"
StoreErrorText == "store error"
UniqueViolationText == "duplicate key value violates unique constraint"
NameErrorText == "name 'json' is not defined"

(* ----------------------- save_assets_to_campaign ---------------------- *)
\* lines 38-65. json is not imported by unified_db.py, so json.dumps (line 42),
\* evaluated for every assets_data that is not a str, raises NameError, which
\* line 61 turns into a failure before the store is touched.
SaveAssetsToCampaign(st, u, assets_data, id, now, faulty) ==
    IF assets_data.t # "str"
    THEN [store |-> st, result |-> Failure(NameErrorText)]
    ELSE IF faulty
    THEN [store |-> st, result |-> Failure(StoreErrorText)]
    ELSE IF SelectByIdOwner(st, id, u) # {}
    THEN [store |-> UpdateRows(st, id, u, [k \in {"assets"} |-> assets_data], now, -1),
          result |-> OkAssets]
    ELSE [store |-> st, result |-> Failure(NotFoundText)]

(* ------------------------ handle_campaign_save ------------------------ *)
\* line 86: assets_data = data.pop('assets', None) or data.pop('selected_asset_ids', None)
ExtractAssets(data) ==
    LET a == DictGet(data, "assets")
        d1 == DictPop(data, "assets")
    IN  IF Truthy(a)
        THEN [assets_data |-> a, data |-> d1]
        ELSE [assets_data |-> DictGet(d1, "selected_asset_ids"),
              data |-> DictPop(d1, "selected_asset_ids")]

\* What the store may do to a call beside answering it: fault = k in 1..3 makes
\* the call's k-th store operation raise; NoRowFault makes the write of the
\* second round trip return no row (the row was removed, or the store refused
\* the write, after the existence check) and leaves the table as it was.
NoRowFault == 4
Faults == 1..NoRowFault

\* The locals of one running call (fault 0: the store answers every operation).
Begin(u, data, cid, fault) ==
    [user |-> u, arg_data |-> data, arg_cid |-> cid, fault |-> fault,
     cid |-> NormalizeCampaignId(cid),
     data |-> ExtractAssets(data).data,
     assets_data |-> ExtractAssets(data).assets_data,
     at |-> "select", branch |-> "none", target |-> 0, ver |-> 0,
     rejected |-> FALSE, assets_result |-> NoResult, result |-> NoResult]

Finish(loc, res) == [loc EXCEPT !.at = "done", !.result = res]

\* lines 89-91 and 116-122: the first store round trip of a call
StepSelect(st, loc) ==
    IF loc.fault = 1
    THEN {[store |-> st, loc |-> Finish(loc, Failure(StoreErrorText))]}
    ELSE IF IsExplicitId(loc.cid)
    THEN IF SelectByIdOwner(st, loc.cid.n, loc.user) # {}
         THEN {[store |-> st,
                loc |-> [loc EXCEPT !.at = "write", !.branch = "explicit",
                                    !.target = loc.cid.n]]}
         ELSE {[store |-> st,
                loc |-> Finish([loc EXCEPT !.branch = "explicit"],
                               Failure(NotFoundText))]}
    ELSE IF SelectActive(st, loc.user) # {}
    THEN \* response.data[0]: the store returns the rows in no stated order
         {[store |-> st,
           loc |-> [loc EXCEPT !.at = "write", !.branch = "active",
                               !.target = i, !.ver = st[i].version]]
            : i \in SelectActive(st, loc.user)}
    ELSE {[store |-> st, loc |-> [loc EXCEPT !.at = "write", !.branch = "create"]]}

\* the create branch without the is_active flag
CampaignDataInactive(u, data, now) == Row(u, FALSE, 1, now, now, data)

\* lines 146-159: the row the create branch inserts
CampaignData(u, data, now) ==
    LET d1 == IF "budget_amount" \in DOMAIN data THEN data
              ELSE [k \in DOMAIN data \cup {"budget_amount"} |->
                      IF k = "budget_amount" THEN PyNum(0) ELSE data[k]]
        d2 == IF "campaign_duration" \in DOMAIN d1 THEN d1
              ELSE [k \in DOMAIN d1 \cup {"campaign_duration"} |->
                      IF k = "campaign_duration" THEN PyNum(1) ELSE d1[k]]
    IN  Row(u, TRUE, 1, now, now, d2)

\* lines 95-96, 125-127, 162: the second store round trip of a call
StepWrite(st, loc, now, unique) ==
    IF loc.fault = 2
    THEN {[store |-> st, loc |-> Finish(loc, Failure(StoreErrorText))]}
    ELSE IF loc.fault = NoRowFault
    THEN \* response.data is empty: lines 98 and 129 skip, line 104 is reached;
         \* line 164 is not
         {[store |-> st,
           loc |-> Finish(loc, CASE loc.branch = "explicit" -> OkExplicit(loc.target)
                                 [] loc.branch = "active" ->
                                        Failure("Failed to update active campaign")
                                 [] OTHER -> Failure("Failed to create campaign"))]}
    ELSE IF loc.branch = "explicit"
    THEN LET rows == SelectByIdOwner(st, loc.target, loc.user)
             st2 == UpdateRows(st, loc.target, loc.user, loc.data, now, -1)
         IN  IF rows # {} /\ Truthy(loc.assets_data)
             THEN {[store |-> st2, loc |-> [loc EXCEPT !.at = "assets"]]}
             ELSE {[store |-> st2, loc |-> Finish(loc, OkExplicit(loc.target))]}
    ELSE IF loc.branch = "active"
    THEN LET rows == SelectByIdOwner(st, loc.target, loc.user)
             st2 == UpdateRows(st, loc.target, loc.user, loc.data, now, loc.ver)
         IN  IF rows # {}
             THEN {[store |-> st2, loc |-> Finish(loc, OkActive(loc.target, loc.ver))]}
             ELSE {[store |-> st2,
                    loc |-> Finish(loc, Failure("Failed to update active campaign"))]}
    ELSE IF unique /\ SelectActive(st, loc.user) # {}
    THEN \* the store rejects the insert; line 179 turns the exception into a failure
         {[store |-> st,
           loc |-> Finish([loc EXCEPT !.rejected = TRUE], Failure(UniqueViolationText))]}
    ELSE {[store |-> InsertRow(st, CampaignData(loc.user, loc.data, now)),
           loc |-> Finish([loc EXCEPT !.target = Len(st) + 1], OkCreate(Len(st) + 1))]}

\* lines 98-108: the asset write of the explicit-id branch and the return
StepAssets(st, loc, now) ==
    LET r == SaveAssetsToCampaign(st, loc.user, loc.assets_data, loc.target, now,
                                  loc.fault = 3)
        l2 == [loc EXCEPT !.assets_result = r.result]
    IN  IF ~r.result.success
        THEN {[store |-> r.store, loc |-> Finish(l2, r.result)]}
        ELSE {[store |-> r.store, loc |-> Finish(l2, OkExplicit(loc.target))]}

\* one store round trip of a running call
Step(x, now, unique) ==
    CASE x.loc.at = "select" -> StepSelect(x.store, x.loc)
      [] x.loc.at = "write"  -> StepWrite(x.store, x.loc, now, unique)
      [] x.loc.at = "assets" -> StepAssets(x.store, x.loc, now)
      [] x.loc.at = "done"   -> {x}

\* lines 68-183: a whole call run with no other request in between
HandleCampaignSave(st, now, unique, u, data, cid, fault) ==
    LET s0 == {[store |-> st, loc |-> Begin(u, data, cid, fault)]}
        s1 == UNION {Step(x, now, unique) : x \in s0}
        s2 == UNION {Step(x, now, unique) : x \in s1}
    IN  UNION {Step(x, now, unique) : x \in s2}

(* ------------------------------ inputs -------------------------------- *)
Dict1(k1, v1) == [k \in {k1} |-> v1]
Dict2(k1, v1, k2, v2) == [k \in {k1, k2} |-> IF k = k1 THEN v1 ELSE v2]
EmptyDict == [k \in {} |-> PyNone]

\* the update payloads the requests draw from
Payloads ==
    { Dict1("campaign_goal", PyStr("awareness")),
      Dict2("budget_amount", PyNum(500), "campaign_duration", PyNum(14)),
      Dict1("assets", PyList(1, "a7")),
      Dict2("assets", PyStr("[7]"), "campaign_goal", PyStr("conversions")),
      Dict2("selected_asset_ids", PyStr("[8]"), "budget_amount", PyNum(0)),
      Dict2("assets", PyStr("[9]"), "selected_asset_ids", PyList(1, "a8")) }

\* campaign_id strings int() cannot convert
MalformedIds == { IdStr(<<>>), IdStr(<<"a">>), IdStr(<<"1", ".", "5">>) }

\* campaign_id values that are integers or strings int() converts
IntegerIds == { IdInt(0), IdInt(1), IdInt(2), IdStr(<<" ", "2">>) }

CampaignIds == {IdNone} \cup MalformedIds \cup IntegerIds

\* the stores a run starts from: every user has at most one active row
InitStores ==
    { <<>>,
      << Row(1, FALSE, 1, 0, 0, Dict1("budget_amount", PyNum(100))),
         Row(2, TRUE, 2, 0, 0, Dict2("campaign_goal", PyStr("retention"),
                                     "assets", PyStr("[1]"))) >>,
      << Row(1, TRUE, 3, 0, 0, Dict1("campaign_duration", PyNum(30))),
         Row(1, FALSE, 1, 0, 0, EmptyDict) >> }

(* --------------------------- call history ----------------------------- *)
Idle == [Begin(1, EmptyDict, IdNone, 0) EXCEPT !.at = "idle"]

\* prev_created_id: the campaign_id returned by the call served just before, when
\* that call was made by the same user with campaign_id None and created a row
\* (0 otherwise)
NoCall == [called |-> FALSE, pre |-> <<>>, now |-> 0, prev_created_id |-> 0, loc |-> Idle]

UserRows(st, u) == {i \in DOMAIN st : st[i].user_id = u}

Unset == [t |-> "unset", n |-> 0, s |-> ""]

\* per user: whether every call of the user so far was a successful call with
\* campaign_id None, how many there were, the campaign_id the first returned,
\* whether all returned that one, whether the first created the row, and the
\* value most recently supplied for each field
NoTrack ==
    [pure |-> TRUE, n |-> 0, id |-> 0, same |-> TRUE, created |-> FALSE,
     sup |-> [k \in Fields |-> Unset]]

Tracked(t, loc) ==
    [pure |-> t.pure /\ loc.arg_cid = IdNone /\ loc.result.success,
     n |-> t.n + 1,
     id |-> IF t.n = 0 THEN loc.result.campaign_id ELSE t.id,
     same |-> t.same /\ (t.n = 0 \/ loc.result.campaign_id = t.id),
     created |-> IF t.n = 0 THEN loc.branch = "create" ELSE t.created,
     sup |-> [k \in Fields |->
                IF k \in DOMAIN loc.arg_data THEN loc.arg_data[k] ELSE t.sup[k]]]

\* no route handler has answered yet
\* handler: the route or function; token: the kind of token sent; user: the
\* user it resolved to (0: none); arg_cid: the campaign_id sent; status, error,
\* campaign_id: the response; campaign: the row read; saved: whether
\* handle_campaign_save was called; pre: the store before
\* key, pre_campaigns, pre_uploads: the campaign key a creative-assets request
\* named (after line 91) and the two in-memory dicts before the request
NoHttp ==
    [handler |-> "none", token |-> "none", user |-> 0, arg_cid |-> IdNone, status |-> 0,
     error |-> "", campaign_id |-> 0, campaign |-> 0, saved |-> FALSE, pre |-> <<>>,
     key |-> "", pre_campaigns |-> EmptyDict, pre_uploads |-> EmptyDict]

(* ------------------------------ actions ------------------------------- *)
\* one request served to completion: handle_campaign_save(supabase, u, data, cid)
Call(u, data, cid, fault) ==
    /\ clock < MaxCalls
    /\ \E o \in HandleCampaignSave(store, clock + 1, uniqueActive, u, data, cid, fault) :
          /\ store' = o.store
          /\ last' = [called |-> TRUE, pre |-> store, now |-> clock + 1,
                      prev_created_id |->
                          IF /\ last.called /\ last.loc.user = u
                             /\ last.loc.arg_cid = IdNone /\ last.loc.branch = "create"
                             /\ last.loc.result.success
                          THEN last.loc.result.campaign_id ELSE 0,
                      loc |-> o.loc]
    /\ clock' = clock + 1
    /\ UNCHANGED <<uniqueActive, req, campaigns, user_uploads>>

Save ==
    /\ \E u \in Users, data \in Payloads, cid \in CampaignIds : Call(u, data, cid, 0)
    /\ UNCHANGED <<track, http>>

SaveFaulty ==
    /\ \E u \in Users, data \in Payloads, cid \in CampaignIds, fault \in Faults :
          Call(u, data, cid, fault)
    /\ UNCHANGED <<track, http>>

Init ==
    /\ store \in InitStores
    /\ clock = 0
    /\ last = NoCall
    /\ track = [u \in Users |-> NoTrack]
    /\ uniqueActive = FALSE
    /\ req = [p \in Procs |-> Idle]
    /\ http = NoHttp
    /\ campaigns = EmptyDict
    /\ user_uploads = EmptyDict

Next == Save

\* requests served one after the other by a store that answers every operation
Spec == Init /\ [][Next]_vars

FaultNext == Save \/ SaveFaulty

\* requests served one after the other by a store whose operations may raise
FaultSpec == Init /\ [][FaultNext]_vars

\* one request with campaign_id None, the user's supplied values recorded
SaveNoId ==
    /\ \E u \in Users, data \in Payloads :
          /\ Call(u, data, IdNone, 0)
          /\ track' = [track EXCEPT ![u] = Tracked(@, last'.loc)]
    /\ UNCHANGED http

NoIdNext == SaveNoId

\* every request is made with campaign_id None
NoIdSpec == Init /\ [][NoIdNext]_vars

(* ------------------------ concurrent requests ------------------------- *)
\* what the concurrent requests draw from
ConcPayloads ==
    { Dict1("campaign_goal", PyStr("awareness")),
      Dict2("assets", PyStr("[7]"), "campaign_goal", PyStr("conversions")) }

ConcIds == {IdNone, IdInt(1)}

\* a request arrives at a free handler: lines 68-86
Arrive(p) ==
    /\ req[p].at = "idle"
    /\ clock < MaxCalls
    /\ \E u \in Users, data \in ConcPayloads, cid \in ConcIds :
          req' = [req EXCEPT ![p] = Begin(u, data, cid, 0)]
    /\ clock' = clock + 1
    /\ UNCHANGED <<store, last, track, uniqueActive, http, campaigns, user_uploads>>

\* a running call makes its next store round trip; the store serves one
\* operation at a time
Round(p) ==
    /\ req[p].at \in {"select", "write", "assets"}
    /\ \E o \in Step([store |-> store, loc |-> req[p]], clock, uniqueActive) :
          /\ store' = o.store
          /\ req' = [req EXCEPT ![p] = o.loc]
    /\ UNCHANGED <<clock, last, track, uniqueActive, http, campaigns, user_uploads>>

\* the handler has answered and is free again
Return(p) ==
    /\ req[p].at = "done"
    /\ req' = [req EXCEPT ![p] = Idle]
    /\ UNCHANGED <<store, clock, last, track, uniqueActive, http, campaigns, user_uploads>>

ConcInit ==
    /\ store \in InitStores
    /\ clock = 0
    /\ last = NoCall
    /\ track = [u \in Users |-> NoTrack]
    /\ uniqueActive \in BOOLEAN
    /\ req = [p \in Procs |-> Idle]
    /\ http = NoHttp
    /\ campaigns = EmptyDict
    /\ user_uploads = EmptyDict

ConcNext == \E p \in Procs : Arrive(p) \/ Round(p) \/ Return(p)

\* requests served concurrently, interleaved at store round trips
ConcSpec == ConcInit /\ [][ConcNext]_vars

(* ============================ properties ============================== *)
ActiveRows(u) == {i \in DOMAIN store : store[i].user_id = u /\ store[i].is_active}

\* C1: after any sequence of calls served one after the other, with or without
\* a campaign_id, every user has at most one row with is_active = true.
C1_AtMostOneActive == \A u \in Users : Cardinality(ActiveRows(u)) <= 1

\* a row the first call created was found and updated by the second
C1_Witness ==
    /\ last.called /\ last.loc.branch = "active" /\ clock >= 2
    /\ last.pre[last.loc.target].created_at = 1
    /\ Cardinality(ActiveRows(last.loc.user)) = 1

NoIdCall == last.called /\ last.loc.arg_cid = IdNone

HadActive == \E i \in DOMAIN last.pre :
                last.pre[i].user_id = last.loc.user /\ last.pre[i].is_active

\* the first of the two calls: a user with no active campaign, campaign_id None
C4_First ==
    (NoIdCall /\ ~HadActive) =>
        /\ last.loc.result.success /\ ~last.loc.result.is_update
        /\ last.loc.result.campaign_id \notin DOMAIN last.pre
        /\ DOMAIN store = DOMAIN last.pre \cup {last.loc.result.campaign_id}
        /\ store[last.loc.result.campaign_id].user_id = last.loc.user

\* C4 as stated: ... the second returns is_update=true with the same id, and the
\* store ends with one record for that user.
C4_AsStated ==
    /\ C4_First
    /\ (NoIdCall /\ last.prev_created_id # 0) =>
          /\ last.loc.result.success /\ last.loc.result.is_update
          /\ last.loc.result.campaign_id = last.prev_created_id
          /\ Cardinality(UserRows(store, last.loc.user)) = 1

\* C4, amended: for a user with no active campaign, two calls with campaign_id
\* None made one after the other insert exactly one row: the first returns
\* is_update=false with a new id, the second returns is_update=true with the
\* same id and inserts nothing, and the user ends with exactly one active row
\* (beside the inactive rows the user had before).
C4_TwoSavesOneRecord ==
    /\ C4_First
    /\ (NoIdCall /\ last.prev_created_id # 0) =>
          /\ last.loc.result.success /\ last.loc.result.is_update
          /\ last.loc.result.campaign_id = last.prev_created_id
          /\ DOMAIN store = DOMAIN last.pre
          /\ ActiveRows(last.loc.user) = {last.prev_created_id}

C4_Witness ==
    /\ NoIdCall /\ last.prev_created_id # 0
    /\ last.loc.result.is_update
    /\ last.loc.result.campaign_id = last.prev_created_id

\* campaign_id is an int, or a str int() converts; its value
WellFormedInteger(cid) == cid.t = "int" \/ (cid.t = "str" /\ PyInt(cid.chars).ok)
IntegerOf(cid) == IF cid.t = "int" THEN cid.n ELSE PyInt(cid.chars).n

\* C5: a call with a well-formed integer campaign_id that names no row owned by
\* the caller returns 'Campaign not found or access denied', does not reach the
\* active-campaign or create branches and leaves the store unchanged.
C5_NotFoundNoFallback ==
    ( /\ last.called
      /\ WellFormedInteger(last.loc.arg_cid)
      /\ \A i \in DOMAIN last.pre :
            ~(i = IntegerOf(last.loc.arg_cid) /\ last.pre[i].user_id = last.loc.user) )
    => /\ last.loc.result = Failure(NotFoundText)
       /\ last.loc.branch = "explicit"
       /\ store = last.pre

\* C6: a call with a campaign_id string int() cannot convert gives the result and
\* the store the same call with campaign_id None gives: the active campaign is
\* updated if there is one, else a campaign is created; it is never an error.
C6_MalformedIdAsNone ==
    (last.called /\ last.loc.arg_cid.t = "str" /\ last.loc.arg_cid \in MalformedIds) =>
        /\ {[store |-> o.store, result |-> o.loc.result] :
              o \in HandleCampaignSave(last.pre, last.now, uniqueActive, last.loc.user,
                                       last.loc.arg_data, IdNone, 0)}
             = {[store |-> store, result |-> last.loc.result]}
        /\ last.loc.result.success
        /\ IF HadActive
           THEN /\ last.loc.result.is_update
                /\ last.pre[last.loc.result.campaign_id].is_active
                /\ DOMAIN store = DOMAIN last.pre
           ELSE /\ ~last.loc.result.is_update
                /\ DOMAIN store = DOMAIN last.pre \cup {last.loc.result.campaign_id}

C6_Witness ==
    /\ last.called /\ last.loc.arg_cid = IdStr(<<"1", ".", "5">>)
    /\ last.loc.result.success /\ last.loc.result.is_update
    /\ 1 \in DOMAIN last.pre /\ last.pre[1].user_id = last.loc.user
    /\ last.loc.result.campaign_id # 1

\* the columns a payload supplies: its keys; the asset references it carries
\* under 'selected_asset_ids' are written to the column assets
Supplied(data) ==
    DOMAIN data \cup (IF "selected_asset_ids" \in DOMAIN data THEN {"assets"} ELSE {})

\* the call found an existing row to update (explicit-id or active branch)
UpdatedExisting ==
    /\ last.called
    /\ last.loc.branch \in {"explicit", "active"}
    /\ last.loc.target \in DOMAIN last.pre

\* C7: a call that updates an existing row, through the explicit-id branch or
\* the active-campaign branch, leaves the row's id, user_id, is_active, version
\* and created_at as they were, and every column the payload does not supply;
\* it changes only updated_at and the supplied columns (and no other row).
C7_UpdateFrame ==
    UpdatedExisting =>
        LET t == last.loc.target IN
        /\ DOMAIN store = DOMAIN last.pre
        /\ \A i \in DOMAIN store : i # t => store[i] = last.pre[i]
        /\ store[t].user_id = last.pre[t].user_id
        /\ store[t].is_active = last.pre[t].is_active
        /\ store[t].version = last.pre[t].version
        /\ store[t].created_at = last.pre[t].created_at
        /\ \A k \in Fields \ Supplied(last.loc.arg_data) :
              store[t].f[k] = last.pre[t].f[k]

C7_Witness ==
    /\ UpdatedExisting /\ last.loc.branch = "active"
    /\ last.pre[last.loc.target].version = 3
    /\ store[last.loc.target].version = 3
    /\ store[last.loc.target].updated_at # last.pre[last.loc.target].updated_at
    /\ store[last.loc.target].f["campaign_goal"] = PyStr("awareness")
    /\ store[last.loc.target].f["campaign_duration"] = PyNum(30)

\* C8: a call with campaign_id None by a user with no active campaign inserts a
\* row with user_id the caller, is_active true, version 1, created_at and
\* updated_at set, every supplied field at its supplied value, budget_amount 0
\* and campaign_duration 1 when the payload lacks them; the result reports
\* is_update=false and version 1.
C8_CreatedRecord ==
    (NoIdCall /\ ~HadActive) =>
        LET id == last.loc.result.campaign_id
            data == last.loc.arg_data
        IN  /\ last.loc.result.success /\ ~last.loc.result.is_update
            /\ last.loc.result.version = 1
            /\ id \in DOMAIN store \ DOMAIN last.pre
            /\ store[id].user_id = last.loc.user
            /\ store[id].is_active /\ store[id].version = 1
            /\ store[id].created_at = last.now /\ store[id].updated_at = last.now
            /\ \A k \in DOMAIN data : store[id].f[k] = data[k]
            /\ "budget_amount" \notin DOMAIN data => store[id].f["budget_amount"] = PyNum(0)
            /\ "campaign_duration" \notin DOMAIN data =>
                  store[id].f["campaign_duration"] = PyNum(1)

\* C10: when the explicit-id branch has applied the field update and the asset
\* write then fails, the result still carries the campaign_id, with a text
\* about the asset write, and is not a failure without campaign_id.
C10_PartialSaveReported ==
    ( /\ last.called /\ last.loc.branch = "explicit"
      /\ last.loc.assets_result # NoResult /\ ~last.loc.assets_result.success )
    => /\ "campaign_id" \in last.loc.result.keys
       /\ last.loc.result.campaign_id = last.loc.target
       /\ last.loc.result.keys \cap {"warning", "error", "message"} # {}
       /\ ~(~last.loc.result.success /\ "campaign_id" \notin last.loc.result.keys)

\* C2: while two concurrent calls for the same user with campaign_id None are
\* running, in every interleaving of their select and insert/update steps, the
\* user never has two rows with is_active = true.
C2_ConcurrentSavesOneActive ==
    \A u \in Users :
        (\E p, q \in Procs :
            /\ p # q
            /\ req[p].at # "idle" /\ req[p].user = u /\ req[p].arg_cid = IdNone
            /\ req[q].at # "idle" /\ req[q].user = u /\ req[q].arg_cid = IdNone)
        => Cardinality(ActiveRows(u)) <= 1

\* C3: a call whose insert the store rejected with a uniqueness violation
\* retries as an update of the now-existing active row and returns success with
\* that row's id and is_update=true.
C3_RejectedInsertRetried ==
    \A p \in Procs :
        (req[p].at = "done" /\ req[p].rejected) =>
            /\ req[p].result.success
            /\ req[p].result.is_update
            /\ req[p].result.campaign_id \in ActiveRows(req[p].user)

\* the value the create branch gives a column the payload does not supply
CreationDefault(k) ==
    CASE k = "budget_amount" -> PyNum(0)
      [] k = "campaign_duration" -> PyNum(1)
      [] OTHER -> PyNone

\* C9: after any sequence of successful calls with campaign_id None by one user,
\* all calls returned the same campaign_id, and in that row each field holds the
\* value most recently supplied for it (its creation default if the sequence
\* created the row and never supplied it).
C9_LatestValuesKept ==
    \A u \in Users :
        (track[u].n > 0 /\ track[u].pure) =>
            /\ track[u].same
            /\ track[u].id \in DOMAIN store
            /\ \A k \in Fields :
                  IF track[u].sup[k] # Unset
                  THEN store[track[u].id].f[k] = track[u].sup[k]
                  ELSE track[u].created =>
                          store[track[u].id].f[k] = CreationDefault(k)

(* ========================= route handlers ============================= *)
(* -------------------------- identity tokens --------------------------- *)
\* The value a request carries under "user_id": absent (None), the empty
\* string, white space, a string jwt.decode refuses, an expired token, a token
\* whose payload has no user_id, or a valid token of user u.
Token(kind, u) == [kind |-> kind, user |-> u]

Tokens ==
    {Token(k, 0) : k \in {"none", "empty", "blank", "malformed", "nouser"}}
    \cup {Token("expired", 1)}
    \cup {Token("valid", u) : u \in Users}

\* `if not token`
TokenTruthy(tok) == tok.kind \notin {"none", "empty"}

\* a decoder that trusts the payload of an expired token
DecodeJwtTokenNoExpiry(tok) ==
    CASE tok.kind \in {"none", "empty", "blank"} ->
            [ok |-> FALSE, user |-> 0, error |-> "Failed to decode token: Empty token"]
      [] tok.kind = "malformed" ->
            [ok |-> FALSE, user |-> 0, error |-> "Invalid token"]
      [] tok.kind = "nouser" ->
            [ok |-> FALSE, user |-> 0,
             error |-> "Failed to decode token: No user_id in token payload"]
      [] OTHER -> [ok |-> TRUE, user |-> tok.user, error |-> ""]

\* unified_db.py lines 12-36: the user id, or ValueError (ok = FALSE) with its text
DecodeJwtToken(tok) ==
    CASE tok.kind \in {"none", "empty", "blank"} ->
            [ok |-> FALSE, user |-> 0, error |-> "Failed to decode token: Empty token"]
      [] tok.kind = "expired" ->
            [ok |-> FALSE, user |-> 0, error |-> "Token has expired. Please login again."]
      [] tok.kind = "malformed" ->
            [ok |-> FALSE, user |-> 0, error |-> "Invalid token"]
      [] tok.kind = "nouser" ->
            [ok |-> FALSE, user |-> 0,
             error |-> "Failed to decode token: No user_id in token payload"]
      [] OTHER -> [ok |-> TRUE, user |-> tok.user, error |-> ""]

(* ------------------------- get_active_campaign ------------------------ *)
\* unified_db.py lines 185-219: the results the call may return; campaign is the
\* id of the row returned (0: None)
GetActiveCampaign(st, u, cid, faulty) ==
    LET id == NormalizeCampaignId(cid)
        rows == IF IsExplicitId(id) THEN SelectByIdOwner(st, id.n, u)
                ELSE SelectActive(st, u)
    IN  IF faulty
        THEN {[success |-> FALSE, campaign |-> 0, error |-> StoreErrorText]}
        ELSE IF rows = {}
        THEN {[success |-> TRUE, campaign |-> 0, error |-> ""]}
        ELSE {[success |-> TRUE, campaign |-> i, error |-> ""] : i \in rows}

(* --------------------------- request bodies --------------------------- *)
\* the read-back of save_budget_testing (line 83) raises
ReadFault == 5

HandlerFaults == {0, 1, ReadFault}

HandlerIds == {IdNone, IdInt(1), IdInt(2), IdStr(<<"a">>)}

\* bodies of POST /api/budget-testing/save: the second lacks campaign_duration
BudgetBodies ==
    { Dict2("budget_amount", PyNum(500), "campaign_duration", PyNum(14)),
      Dict1("budget_amount", PyNum(500)) }

\* bodies of POST /api/save-campaign: the second lacks post_caption
CopyBodies ==
    { Dict2("messaging_tone", PyStr("friendly"), "post_caption", PyStr("h b c")),
      Dict1("messaging_tone", PyStr("friendly")) }

\* a handler answers without calling handle_campaign_save
Answer(h) ==
    /\ http' = h
    /\ clock' = clock + 1
    /\ UNCHANGED <<store, last, uniqueActive, req, campaigns, user_uploads>>

(* ------------------------ save_budget_testing ------------------------- *)
\* budget_testing.py lines 63-69: the payload passed to handle_campaign_save
BudgetData(body) ==
    [k \in {"budget_amount", "campaign_duration", "messaging_tone"} |-> DictGet(body, k)]

\* budget_testing.py lines 47-104
SaveBudgetTesting(tok, body, cid, fault) ==
    LET h0 == [NoHttp EXCEPT !.handler = "save_budget_testing", !.token = tok.kind,
                             !.arg_cid = cid, !.pre = store]
        d == DecodeJwtToken(tok)
    IN  /\ clock < MaxCalls
        /\ UNCHANGED track
        /\ IF ~TokenTruthy(tok)
           THEN Answer([h0 EXCEPT !.status = 401, !.error = "Missing auth token"])
           ELSE IF ~d.ok
           THEN Answer([h0 EXCEPT !.status = 500, !.error = d.error])
           ELSE IF {"budget_amount", "campaign_duration"} \ DOMAIN body # {}
           THEN Answer([h0 EXCEPT !.status = 500, !.error = "KeyError"])
           ELSE /\ Call(d.user, BudgetData(body), cid, IF fault \in Faults THEN fault ELSE 0)
                /\ LET r == last'.loc.result
                       h1 == [h0 EXCEPT !.saved = TRUE, !.user = d.user]
                   IN  IF ~r.success
                       THEN http' = [h1 EXCEPT !.status = 500, !.error = r.error]
                       ELSE \E g \in GetActiveCampaign(store', d.user, IdInt(r.campaign_id),
                                                       fault = ReadFault) :
                              http' = IF ~g.success
                                      THEN [h1 EXCEPT !.status = 500, !.error = "KeyError"]
                                      ELSE IF g.campaign = 0
                                      THEN [h1 EXCEPT !.status = 500,
                                                      !.error = "AttributeError"]
                                      ELSE [h1 EXCEPT !.status = 200,
                                                      !.campaign_id = r.campaign_id,
                                                      !.campaign = g.campaign]

(* --------------------------- save_campaign ---------------------------- *)
\* copy_messaging.py lines 170-206; decode_jwt_token is called outside any try,
\* so its ValueError is answered by the framework with status 500
SaveCampaign(tok, body, cid, fault) ==
    LET h0 == [NoHttp EXCEPT !.handler = "save_campaign", !.token = tok.kind,
                             !.arg_cid = cid, !.pre = store]
        d == DecodeJwtToken(tok)
    IN  /\ clock < MaxCalls
        /\ UNCHANGED track
        /\ IF \/ ~TokenTruthy(tok) \/ ~IdTruthy(cid)
              \/ ~Truthy(DictGet(body, "messaging_tone"))
              \/ ~Truthy(DictGet(body, "post_caption"))
           THEN Answer([h0 EXCEPT !.status = 400, !.error = "Missing fields"])
           ELSE IF ~d.ok
           THEN Answer([h0 EXCEPT !.status = 500, !.error = "Internal Server Error"])
           ELSE /\ Call(d.user, body, cid, IF fault \in Faults THEN fault ELSE 0)
                /\ LET r == last'.loc.result
                       h1 == [h0 EXCEPT !.saved = TRUE, !.user = d.user]
                   IN  http' = IF ~r.success
                               THEN [h1 EXCEPT !.status = 500, !.error = r.error]
                               ELSE [h1 EXCEPT !.status = 200,
                                               !.campaign_id = r.campaign_id]

\* the store's faults can only show in a request that reaches the store
PostBudget ==
    \E tok \in Tokens, body \in BudgetBodies, cid \in HandlerIds :
        \E fault \in IF DecodeJwtToken(tok).ok THEN HandlerFaults ELSE {0} :
            SaveBudgetTesting(tok, body, cid, fault)

PostCopy ==
    \E tok \in Tokens, body \in CopyBodies, cid \in HandlerIds :
        \E fault \in IF DecodeJwtToken(tok).ok THEN {0, 1} ELSE {0} :
            SaveCampaign(tok, body, cid, fault)

HandlerNext == PostBudget \/ PostCopy

\* requests to the two routes that save through the resolver, served one after
\* the other
HandlerSpec == Init /\ [][HandlerNext]_vars

\* the request's token does not resolve to a user
TokenUnresolved == http.token \in {"none", "empty", "blank", "malformed", "expired", "nouser"}

\* C11: in save_budget_testing and save_campaign, a request whose token is
\* missing, empty, malformed, expired or without user_id is answered before any
\* store operation: handle_campaign_save is not called and the store is as it
\* was before the request.
C11_BadTokenStoreUntouched ==
    (http.handler \in {"save_budget_testing", "save_campaign"} /\ TokenUnresolved) =>
        /\ ~http.saved
        /\ store = http.pre
        /\ http.status # 200

\* an expired token of a user who has an active campaign, after an earlier save
C11_Witness ==
    /\ http.handler = "save_budget_testing" /\ http.token = "expired"
    /\ http.arg_cid = IdNone
    /\ clock = 2 /\ last.called
    /\ store = http.pre /\ store # <<>>

\* C12: in save_budget_testing and save_campaign, a request whose token cannot
\* be resolved (missing, malformed, expired) is answered with status 401, and
\* a request that failed in handle_campaign_save (store failure, campaign not
\* found) is answered with another status.
C12_BadTokenUnauthorized ==
    (http.handler \in {"save_budget_testing", "save_campaign"}) =>
        /\ TokenUnresolved => http.status = 401
        /\ (http.saved /\ ~last.loc.result.success) => http.status # 401

\* the answer followed a 'Campaign not found or access denied' result
AnsweredNotFound ==
    /\ http.handler \in {"save_budget_testing", "save_campaign"}
    /\ http.saved /\ last.loc.result = Failure(NotFoundText)

\* the answer followed a failure the store raised
AnsweredStoreError ==
    /\ http.handler \in {"save_budget_testing", "save_campaign"}
    /\ http.saved /\ last.loc.result = Failure(StoreErrorText)

\* C13: the not-found failure of handle_campaign_save differs from the failure
\* returned when the store raises, and the handlers answer the first with a
\* not-found or forbidden status and the second with the server-failure status.
C13_NotFoundStatusDiffers ==
    /\ Failure(NotFoundText) # Failure(StoreErrorText)
    /\ AnsweredNotFound => http.status \in {403, 404}
    /\ AnsweredStoreError => http.status = 500

(* ============== calls under faults, and direct asset writes =========== *)
\* save_assets_to_campaign(supabase, u, assets_data, id) called on its own
CallAssets(u, assets_data, id, faulty) ==
    /\ clock < MaxCalls
    /\ LET r == SaveAssetsToCampaign(store, u, assets_data, id, clock + 1, faulty)
       IN  /\ store' = r.store
           /\ last' = [called |-> TRUE, pre |-> store, now |-> clock + 1,
                       prev_created_id |-> 0,
                       loc |-> [Begin(u, Dict1("assets", assets_data), IdInt(id),
                                      IF faulty THEN 1 ELSE 0)
                                  EXCEPT !.at = "done", !.branch = "assets",
                                         !.target = id, !.assets_result = r.result,
                                         !.result = r.result]]
    /\ clock' = clock + 1
    /\ UNCHANGED <<track, uniqueActive, req, http, campaigns, user_uploads>>

FramePayloads ==
    { Dict2("budget_amount", PyNum(500), "campaign_duration", PyNum(14)),
      Dict2("assets", PyStr("[7]"), "campaign_goal", PyStr("conversions")),
      Dict1("assets", PyList(1, "a7")) }

FrameIds == {IdNone, IdInt(1), IdInt(2)}

\* handle_campaign_save, the store answering or failing in any of its ways
SaveAnyFault ==
    /\ \E u \in Users, data \in FramePayloads, cid \in FrameIds, fault \in {0} \cup Faults :
          Call(u, data, cid, fault)
    /\ UNCHANGED <<track, http>>

SaveAssetsDirect ==
    \E u \in Users, a \in {PyStr("[5]"), PyList(1, "a5")}, id \in 1..2, faulty \in BOOLEAN :
        CallAssets(u, a, id, faulty)

FrameNext == SaveAnyFault \/ SaveAssetsDirect

\* calls of handle_campaign_save and of save_assets_to_campaign, served one
\* after the other by a store that may fail
FrameSpec == Init /\ [][FrameNext]_vars

\* the rows whose content differs between the store before and after the call
ChangedRows ==
    {i \in DOMAIN store \cup DOMAIN last.pre :
        \/ i \notin DOMAIN last.pre
        \/ i \notin DOMAIN store
        \/ store[i] # last.pre[i]}

\* C14: every call of handle_campaign_save, on any branch, succeeding or
\* failing, creates or modifies at most one row.
C14_AtMostOneRowChanged ==
    last.called => Cardinality(ChangedRows) <= 1

\* a failed call that changed one row of a user who owns two
C14_Witness ==
    /\ last.called /\ last.loc.branch = "explicit"
    /\ ~last.loc.result.success
    /\ Cardinality(ChangedRows) = 1
    /\ Cardinality(UserRows(last.pre, last.loc.user)) = 2

\* C15: no call of handle_campaign_save or save_assets_to_campaign changes
\* is_active of a row that existed before the call; the only row whose
\* is_active a call writes is the row it inserts, and it writes true.
C15_IsActiveOnlyOnInsert ==
    last.called =>
        /\ \A i \in DOMAIN last.pre :
              i \in DOMAIN store /\ store[i].is_active = last.pre[i].is_active
        /\ \A i \in DOMAIN store \ DOMAIN last.pre : store[i].is_active

\* an inactive row was updated through its id and stayed inactive
C15_Witness ==
    /\ last.called /\ last.loc.branch \in {"explicit", "assets"}
    /\ last.loc.result.success
    /\ ChangedRows = {last.loc.target}
    /\ ~last.pre[last.loc.target].is_active
    /\ ~store[last.loc.target].is_active

\* C16: in any sequence of handle_campaign_save and save_assets_to_campaign
\* calls, each call made as user U, whatever its campaign_id, leaves every row
\* of every other user as it was, and every row it creates has user_id U.
C16_OtherUsersUntouched ==
    last.called =>
        /\ \A i \in DOMAIN last.pre :
              last.pre[i].user_id # last.loc.user =>
                  i \in DOMAIN store /\ store[i] = last.pre[i]
        /\ \A i \in DOMAIN store \ DOMAIN last.pre : store[i].user_id = last.loc.user

\* a call naming another user's row by id, after an earlier call
C16_Witness ==
    /\ last.called /\ clock = 2
    /\ last.loc.arg_cid = IdInt(2)
    /\ 2 \in DOMAIN last.pre /\ last.pre[2].user_id # last.loc.user
    /\ store[2] = last.pre[2]
    /\ ~last.loc.result.success

(* ===================== get_active_campaign on its own ================= *)
ReadIds ==
    {IdNone, IdStr(<<"a">>), IdInt(0), IdStr(<<"0">>), IdInt(1), IdStr(<<" ", "2">>)}

\* get_active_campaign(supabase, u, cid), the store answering
ReadCampaign(u, cid) ==
    /\ clock < MaxCalls
    /\ \E g \in GetActiveCampaign(store, u, cid, FALSE) :
          http' = [NoHttp EXCEPT !.handler = "get_active_campaign", !.user = u,
                                 !.arg_cid = cid, !.campaign = g.campaign,
                                 !.status = IF g.success THEN 200 ELSE 500,
                                 !.pre = store]
    /\ clock' = clock + 1
    /\ UNCHANGED <<store, last, track, uniqueActive, req, campaigns, user_uploads>>

Read == \E u \in Users, cid \in ReadIds : ReadCampaign(u, cid)

\* a save between reads; the answer of an earlier read is no longer the latest
SaveBetweenReads ==
    /\ \E u \in Users, data \in Payloads, cid \in CampaignIds : Call(u, data, cid, 0)
    /\ http' = NoHttp
    /\ UNCHANGED track

ReadNext == SaveBetweenReads \/ Read

\* saves and reads served one after the other
ReadSpec == Init /\ [][ReadNext]_vars

\* C17: get_active_campaign never modifies the store; with a well-formed
\* integer campaign_id it returns the row with that id owned by the caller, or
\* none (never another user's row, never the caller's active row instead);
\* with campaign_id absent or malformed it returns the caller's active row, or
\* none.
C17_ReadByIdOrActive ==
    (http.handler = "get_active_campaign") =>
        /\ store = http.pre
        /\ IF WellFormedInteger(http.arg_cid)
           THEN IF /\ IntegerOf(http.arg_cid) \in DOMAIN store
                   /\ store[IntegerOf(http.arg_cid)].user_id = http.user
                THEN http.campaign = IntegerOf(http.arg_cid)
                ELSE http.campaign = 0
           ELSE IF ActiveRows(http.user) # {}
                THEN http.campaign \in ActiveRows(http.user)
                ELSE http.campaign = 0

(* ================= the goal and audience steps ======================== *)
\* A row inserted without is_active, version, created_at and updated_at takes
\* the table's defaults. The table's schema is not part of the repository:
\* the default of is_active (d) is either value, version is taken as 1 and the
\* timestamps as the time of the insert.
DefaultedRow(u, d, now, cols) == Row(u, d, 1, now, now, cols)

\* an update whose payload carries no updated_at
UpdateColumns(st, id, u, data) ==
    IF SelectByIdOwner(st, id, u) = {} THEN st
    ELSE UpdateRows(st, id, u, data, st[id].updated_at, -1)

\* the campaign_id of a wizard request: absent, or a string
WizardIds == {IdNone, IdStr(<<"1">>), IdStr(<<"a">>)}

Goals == {PyStr("awareness"), PyStr("retention"), PyStr("reach"), PyNone}

\* campaign_goal.py line 93
ValidGoals == {"awareness", "consideration", "conversions", "retention"}

WizardTokens == {Token("none", 0), Token("malformed", 0)} \cup {Token("valid", u) : u \in Users}

\* campaign_goal.py lines 43-75 and audience_step.py lines 100-116: update the
\* row named by campaign_id, or insert a row; cols are the columns written by
\* the update, extra those the insert adds
UpdateOrInsert(st, u, cols, extra, cid, d, now, failText) ==
    IF IdTruthy(cid)
    THEN LET r == IF cid.t = "int" THEN [ok |-> TRUE, n |-> cid.n] ELSE PyInt(cid.chars)
         IN  IF ~r.ok
             THEN [store |-> st, branch |-> "none", target |-> 0,
                   result |-> Failure("invalid literal for int()")]
             ELSE IF SelectByIdOwner(st, r.n, u) = {}
             THEN [store |-> st, branch |-> "explicit", target |-> 0,
                   result |-> Failure(failText)]
             ELSE [store |-> UpdateColumns(st, r.n, u, cols), branch |-> "explicit",
                   target |-> r.n, result |-> OkExplicit(r.n)]
    ELSE [store |-> InsertRow(st, DefaultedRow(u, d, now,
                        [k \in DOMAIN cols \cup DOMAIN extra |->
                            IF k \in DOMAIN cols THEN cols[k] ELSE extra[k]])),
          branch |-> "create", target |-> Len(st) + 1, result |-> OkCreate(Len(st) + 1)]

\* the store part of a wizard step was run as user u: what the step leaves behind
StepDone(h, u, cols, cid, r) ==
    /\ store' = r.store
    /\ last' = [called |-> TRUE, pre |-> store, now |-> clock + 1,
                prev_created_id |->
                    IF /\ last.called /\ last.loc.user = u
                       /\ last.loc.arg_cid = IdNone /\ last.loc.branch = "create"
                       /\ last.loc.result.success
                    THEN last.loc.result.campaign_id ELSE 0,
                loc |-> [Begin(u, cols, cid, 0) EXCEPT
                            !.at = "done", !.branch = r.branch, !.target = r.target,
                            !.result = r.result]]
    /\ http' = [h EXCEPT !.saved = TRUE, !.user = u,
                         !.status = IF r.result.success THEN 200 ELSE 500,
                         !.error = r.result.error,
                         !.campaign_id = r.result.campaign_id]
    /\ clock' = clock + 1
    /\ UNCHANGED <<uniqueActive, req, campaigns, user_uploads>>

\* campaign_goal.py lines 81-109 (create_campaign_goal) with lines 43-75
\* (save_campaign_goal)
CreateCampaignGoal(tok, goal, cid, d) ==
    LET h0 == [NoHttp EXCEPT !.handler = "create_campaign_goal", !.token = tok.kind,
                             !.arg_cid = cid, !.pre = store]
        dec == DecodeJwtToken(tok)
        cols == Dict1("campaign_goal", goal)
        extra == [k \in {"campaign_status", "budget_amount", "campaign_duration"} |->
                    CASE k = "campaign_status" -> PyStr("draft")
                      [] k = "budget_amount" -> PyNum(0)
                      [] k = "campaign_duration" -> PyNum(30)]
    IN  /\ clock < MaxCalls
        /\ UNCHANGED track
        /\ IF ~Truthy(goal) \/ ~TokenTruthy(tok)
           THEN Answer([h0 EXCEPT !.status = 400, !.error = "Missing goal or auth token"])
           ELSE IF goal.s \notin ValidGoals
           THEN Answer([h0 EXCEPT !.status = 400, !.error = "Invalid campaign goal"])
           ELSE IF ~dec.ok
           THEN Answer([h0 EXCEPT !.status = 500, !.error = dec.error])
           ELSE StepDone(h0, dec.user, cols, cid,
                         UpdateOrInsert(store, dec.user, cols, extra, cid, d, clock + 1,
                                        NotFoundText))

\* bodies of POST /api/audience/targeting: the second lacks the audience keys
AudienceBodies == { Dict1("demographics", PyList(2, "mf")), EmptyDict }

\* audience_step.py lines 80-125 (save_audience_targeting); demographics stands
\* for the five audience columns, which are read and written together
SaveAudienceTargeting(tok, body, cid, d) ==
    LET h0 == [NoHttp EXCEPT !.handler = "save_audience_targeting", !.token = tok.kind,
                             !.arg_cid = cid, !.pre = store]
        dec == DecodeJwtToken(tok)
    IN  /\ clock < MaxCalls
        /\ UNCHANGED track
        /\ IF ~TokenTruthy(tok)
           THEN Answer([h0 EXCEPT !.status = 401, !.error = "Missing auth token"])
           ELSE IF ~dec.ok
           THEN Answer([h0 EXCEPT !.status = 500, !.error = dec.error])
           ELSE IF "demographics" \notin DOMAIN body
           THEN Answer([h0 EXCEPT !.status = 500, !.error = "KeyError"])
           ELSE StepDone(h0, dec.user, body, cid,
                         UpdateOrInsert(store, dec.user, body,
                                        Dict1("campaign_status", PyStr("draft")),
                                        cid, d, clock + 1, "Database operation failed"))

PostGoal ==
    \E tok \in WizardTokens, goal \in Goals, cid \in WizardIds, d \in BOOLEAN :
        CreateCampaignGoal(tok, goal, cid, d)

PostAudience ==
    \E tok \in WizardTokens, body \in AudienceBodies, cid \in WizardIds, d \in BOOLEAN :
        SaveAudienceTargeting(tok, body, cid, d)

WizardNext == PostGoal \/ PostAudience

\* requests to the goal and audience steps, served one after the other
WizardSpec == Init /\ [][WizardNext]_vars

\* the latest request ran the store part of the goal or audience step
WizardStepRan ==
    /\ http.handler \in {"create_campaign_goal", "save_audience_targeting"}
    /\ http.saved

\* C18: the goal step and the audience step save by the resolver's rules: a
\* save with no campaign_id by a user who has an active campaign updates that
\* campaign and inserts no row, and of two goal saves with no campaign_id made
\* one after the other the first creates a row and the second updates it.
C18_StepsFollowResolver ==
    /\ (WizardStepRan /\ last.loc.arg_cid = IdNone /\ HadActive) =>
          /\ last.loc.result.success /\ last.loc.result.is_update
          /\ DOMAIN store = DOMAIN last.pre
          /\ last.pre[last.loc.result.campaign_id].is_active
    /\ ( /\ WizardStepRan /\ http.handler = "create_campaign_goal"
         /\ last.loc.arg_cid = IdNone /\ last.prev_created_id # 0 ) =>
          /\ last.loc.result.success /\ last.loc.result.is_update
          /\ last.loc.result.campaign_id = last.prev_created_id
          /\ DOMAIN store = DOMAIN last.pre

(* ================== calls with an integer campaign_id ================= *)
ExplicitIds == IntegerIds \cup {IdStr(<<"0">>)}

SaveExplicit ==
    /\ \E u \in Users, data \in Payloads, cid \in ExplicitIds : Call(u, data, cid, 0)
    /\ UNCHANGED <<track, http>>

ExplicitNext == SaveExplicit

\* every request names a campaign by an integer, or by a string int() converts
ExplicitSpec == Init /\ [][ExplicitNext]_vars

\* C19: a call whose campaign_id is present and a well-formed integer, the
\* integer 0 and the string "0" included, takes the explicit-id branch: it
\* inserts no row and changes no row but the one with that id, so it never
\* updates the caller's active campaign in its place.
C19_IntegerIdIsExplicit ==
    (last.called /\ WellFormedInteger(last.loc.arg_cid)) =>
        /\ last.loc.branch = "explicit"
        /\ DOMAIN store = DOMAIN last.pre
        /\ ChangedRows \subseteq {IntegerOf(last.loc.arg_cid)}

\* C20: whenever handle_campaign_save returns success on the explicit-id
\* branch, the update took effect: the row holds the payload's values and the
\* call's time; when the update returns no row (the row was removed, or the
\* store refused the write, after the existence check) the call does not
\* report success.
C20_SuccessMeansWritten ==
    (last.called /\ last.loc.branch = "explicit" /\ last.loc.result.success) =>
        /\ last.loc.fault # NoRowFault
        /\ last.loc.target \in DOMAIN store
        /\ store[last.loc.target].updated_at = last.now
        /\ \A k \in DOMAIN last.loc.data :
              store[last.loc.target].f[k] = last.loc.data[k]

\* the payload of the latest call carries asset references
AssetsSupplied ==
    /\ last.called
    /\ DOMAIN last.loc.arg_data \cap {"assets", "selected_asset_ids"} # {}

\* C21: whenever handle_campaign_save returns success for a payload that
\* contains 'assets' or 'selected_asset_ids', on the explicit-id, the active or
\* the create branch, the assets column of the row it names holds the value
\* supplied.
C21_AssetsNeverDropped ==
    (AssetsSupplied /\ last.loc.result.success) =>
        /\ last.loc.result.campaign_id \in DOMAIN store
        /\ store[last.loc.result.campaign_id].f["assets"]
             = ExtractAssets(last.loc.arg_data).assets_data

(* ============ every kind of campaign_id under every fault ============= *)
TotalIds == {IdNone, IdInt(0), IdStr(<<"a">>), IdInt(1), IdStr(<<" ", "2">>)}

SaveAnyInput ==
    /\ \E u \in Users, data \in FramePayloads, cid \in TotalIds, fault \in {0} \cup Faults :
          Call(u, data, cid, fault)
    /\ UNCHANGED <<track, http>>

TotalNext == SaveAnyInput

\* calls with campaign_id absent, zero, malformed or an integer, the store
\* answering or failing in any of its ways
TotalSpec == Init /\ [][TotalNext]_vars

\* C22: handle_campaign_save never raises: for every input and every store
\* behaviour, a raising store operation included, it ends by returning a
\* result with a boolean 'success'; a result with success true carries a
\* campaign_id that names a row owned by the caller, and a result with success
\* false carries an 'error' text and no campaign_id.
C22_AlwaysReturnsResult ==
    last.called =>
        LET r == last.loc.result IN
        /\ last.loc.at = "done"
        /\ "success" \in r.keys /\ r.success \in BOOLEAN
        /\ r.success =>
              /\ "campaign_id" \in r.keys
              /\ r.campaign_id \in DOMAIN store
              /\ store[r.campaign_id].user_id = last.loc.user
        /\ ~r.success =>
              /\ "error" \in r.keys /\ r.error # ""
              /\ "campaign_id" \notin r.keys

\* the insert of the create branch raised, after an earlier successful save
C22_Witness ==
    /\ last.called /\ clock = 2
    /\ last.loc.fault = 2 /\ last.loc.branch = "create"
    /\ last.loc.result = Failure(StoreErrorText)
    /\ store = last.pre /\ store # <<>>

(* ============== creative assets: the in-memory store ================== *)
\* campaign keys a request may name, and those uuid4 may produce (line 91)
NamedKeys == {"campaign_a", "campaign_b"}
FreshKeys == {"campaign_u1", "campaign_u2", "campaign_u3"}

\* user_id of a request body: a user, or absent (0)
BodyUsers == Users \cup {0}

\* d[k] = v on a dict
DictSet(d, k, v) == [x \in DOMAIN d \cup {k} |-> IF x = k THEN v ELSE d[x]]

\* lines 104-108: the campaign upload_image creates under a key not yet known
NewCampaign(u, now) ==
    [user_id |-> u, created_at |-> now, assets |-> PyList(0, ""),
     selected_assets |-> PyNone, updated_at |-> 0]

\* what a creative-assets request leaves in http
Creative(handler, u, key, status) ==
    [NoHttp EXCEPT !.handler = handler, !.user = u, !.key = key, !.status = status,
                   !.pre_campaigns = campaigns, !.pre_uploads = user_uploads]

\* creative_assets.py lines 76-121; key "" is an absent campaign_id
UploadImage(u, image_data, key) ==
    /\ clock < MaxCalls
    /\ IF u = 0 \/ ~Truthy(image_data)
       THEN /\ http' = Creative("upload_image", u, key, 400)
            /\ UNCHANGED <<campaigns, user_uploads>>
       ELSE \E k \in IF key # "" THEN {key}
                     ELSE {f \in FreshKeys : f \notin DOMAIN campaigns} :
              /\ user_uploads' =
                    DictSet(user_uploads, u,
                            DictSet(IF u \in DOMAIN user_uploads THEN user_uploads[u]
                                    ELSE EmptyDict,
                                    k, [image_data |-> image_data, uploaded_at |-> clock + 1]))
              /\ campaigns' = IF k \in DOMAIN campaigns THEN campaigns
                              ELSE DictSet(campaigns, k, NewCampaign(u, clock + 1))
              /\ http' = Creative("upload_image", u, k, 200)
    /\ clock' = clock + 1
    /\ UNCHANGED <<store, last, track, uniqueActive, req>>

\* creative_assets.py lines 227-255
SaveSelectedAssets(u, key, selected_assets) ==
    /\ clock < MaxCalls
    /\ IF u = 0 \/ key = ""
       THEN http' = Creative("save_selected_assets", u, key, 400) /\ UNCHANGED campaigns
       ELSE IF key \notin DOMAIN campaigns
       THEN http' = Creative("save_selected_assets", u, key, 404) /\ UNCHANGED campaigns
       ELSE /\ campaigns' = [campaigns EXCEPT ![key].selected_assets = selected_assets,
                                               ![key].updated_at = clock + 1]
            /\ http' = Creative("save_selected_assets", u, key, 200)
    /\ clock' = clock + 1
    /\ UNCHANGED <<store, last, track, uniqueActive, req, user_uploads>>

PostUpload ==
    \E u \in BodyUsers, image_data \in {PyStr("png1"), PyNone}, key \in NamedKeys \cup {""} :
        UploadImage(u, image_data, key)

PostSelected ==
    \E u \in BodyUsers, key \in NamedKeys \cup {""},
       selected_assets \in {PyList(0, ""), PyList(2, "s12")} :
        SaveSelectedAssets(u, key, selected_assets)

CreativeNext == PostUpload \/ PostSelected

\* requests to the creative-assets routes, served one after the other
CreativeSpec == Init /\ [][CreativeNext]_vars

\* the latest request named, as user http.user, a campaign of another user
OnForeignCampaign ==
    /\ http.handler \in {"upload_image", "save_selected_assets"}
    /\ http.user # 0
    /\ http.key \in DOMAIN http.pre_campaigns
    /\ http.pre_campaigns[http.key].user_id # http.user

\* C23: in the in-memory creative-assets store, upload_image and
\* save_selected_assets issued by user V on a campaign key whose campaign
\* belongs to another user are rejected: no upload is added under that key and
\* the campaign's selected_assets and updated_at stay as they were.
C23_ForeignCampaignRejected ==
    OnForeignCampaign =>
        /\ http.status # 200
        /\ user_uploads = http.pre_uploads
        /\ campaigns = http.pre_campaigns

====
